---------------------------- MODULE Spec2Model ----------------------------
(***************************************************************************)
(* hslam/splice: the Linux transfer engine with the sharded Context pool.   *)
(*                                                                         *)
(*   src/splice_linux.go       Splice, newContext, Close, netFd            *)
(*   src/unnamed/part_002      bucket (GetInstance, run, Get, Free,        *)
(*                             Release) and spliceBuffer, lines 101-307    *)
(*                                                                         *)
(* One shard (bucket) is modelled, with the goroutines that use it: the    *)
(* callers of Splice (Procs), the shard's maintenance goroutine (run) and  *)
(* one goroutine that calls GetInstance().Release() as the test does.      *)
(* Every region the code runs under b.lock is one atomic step; every       *)
(* system call made outside the lock (pipe, splice, close, Read, Write) is *)
(* a step of its own.                                                      *)
(*                                                                         *)
(* A Context is an object with an identity (a Go pointer); its pipe is     *)
(* addressed through the Context.  A system call on a closed Context       *)
(* answers EBADF: the kernel's reuse of descriptor numbers is outside the  *)
(* model.  Time is the flag expired (lastIdle + idleTime < now).           *)
(***************************************************************************)
EXTENDS Integers, Sequences, FiniteSets, TLC

\* ---------------------------------------------------------------- bounds
\* Contexts the shard may create in one behaviour (newContext fails after).
MaxCtx == 3
\* Bytes each source connection carries before its peer closes it.
SrcLen == 2
\* maxSpliceSize (4 << 20 in the code), scaled.
maxSpliceSize == 2
\* maxIdleContexts (256 in the code), scaled.
maxIdleContexts == 2

\* The goroutines that call Splice, again and again.
Procs == {1, 2}
\* The caller in the specifications with one caller of Splice.
Solo == {1}
\* The goroutine that uses the bucket the way TestBucket does.
Testers == {1}
Ctxs == 1..MaxCtx
\* The len arguments a caller passes: up to and beyond maxSpliceSize.
Lens == 1..(maxSpliceSize + 1)
\* The nil *context.
NoCtx == 0
\* The concurrent callers of assignPool.
Assigners == {1, 2}
\* The capacities spliceBuffer asks assignPool for: max(maxSpliceSize, len).
Sizes == {IF maxSpliceSize < l THEN l ELSE maxSpliceSize : l \in Lens}
\* buffers.Load found no entry; a caller's nil pool.
NoPool == 0
\* The caller passes a nil Context.
NoBuffer == 0

Min(a, b) == IF a < b THEN a ELSE b
Range(s) == {s[i] : i \in 1..Len(s)}
Take(s, k) == SubSeq(s, 1, Min(k, Len(s)))
Drop(s, k) == SubSeq(s, Min(k, Len(s)) + 1, Len(s))
\* The i-th byte the peer of p's source connection sends.
Byte(p, i) == 10 * p + i
Stream(p) == [i \in 1..SrcLen |-> Byte(p, i)]

VARIABLES
    \* bucket
    created,        \* b.created
    pending,        \* b.pending (a nil map reads as the empty map)
    queue,          \* b.queue
    expired,        \* b.lastIdle.Add(idleTime).Before(time.Now())
    \* contexts
    nextCtx,        \* the next Context newContext allocates
    alive,          \* ctx.alive
    closed,         \* ctx.Close() ran on the Context
    pipe,           \* bytes sitting in the Context's pipe
    \* bucket.run
    runPc,          \* "none" | "check" | "evict" | "close"
    idleContexts,   \* run's local slice (its non-nil prefix)
    idles,          \* run's local idles
    \* GetInstance().Release() caller
    relPc,          \* "idle" | "release" | "close"
    relSet,         \* Release's local pending
    \* Splice callers
    pc,             \* position of each caller
    ctx,            \* the Context the call obtained
    len,            \* the len argument
    path,           \* "splice" | "buffer": which function's loop runs
    raw,            \* <<netFd(dst) succeeds, netFd(src) succeeds>>
    remain,         \* remain
    n,              \* n
    err,            \* err as returned
    sys,            \* what the last system call of the call reported
    buf,            \* spliceBuffer: the bytes Read put in buf
    pos,            \* spliceBuffer: pos
    taken,          \* bytes the call removed from its source
    wrote,          \* bytes the call appended to its destination
    tries,          \* <<leg-1 / Read calls, whether a leg-2 / Write call was made,
                    \*   the write loop's EAGAIN turns in a row, modulo 2>>
    \* connections
    src,            \* bytes of the source connection not yet read
    dst,            \* bytes the destination connection received
    dstBusy,        \* the destination's send buffer is full (EAGAIN)
    \* TestBucket-style users of the bucket
    tpc,            \* position of each user
    thold,          \* the Contexts in the user's ctxs
    tcur,           \* the Context the user's Get or Free is working on
    \* assignPool
    buffers,        \* the registry: capacity -> pool (NoPool: no entry)
    assign,         \* the flag assignPool takes with CompareAndSwap
    pools,          \* every pool object created so far: pool -> its capacity
    apc,            \* position of each caller of assignPool
    asize,          \* the caller's size argument
    apool,          \* the caller's local pool
    aret,           \* the pool the caller's last call returned
    \* Splice(dst, src, ctx, len) with a caller-supplied Context
    cbuffer,        \* cap(ctx.buffer) of the caller's Context (NoBuffer: ctx is nil)
    cpc,            \* position of the caller
    clen,           \* the len argument
    cbuf,           \* len(buf), the working buffer
    cvia,           \* where buf comes from: "ctx" | "shm" | "pool"
    retain,         \* retain
    cpos,           \* pos
    cn,             \* n
    cerr            \* err as returned

bucketVars == <<created, pending, queue, expired>>
ctxVars == <<nextCtx, alive, closed, pipe>>
runVars == <<runPc, idleContexts, idles>>
relVars == <<relPc, relSet>>
callVars == <<pc, ctx, len, path, raw, remain, n, err, sys, buf, pos, taken, wrote, tries>>
connVars == <<src, dst, dstBusy>>
testVars == <<tpc, thold, tcur>>
poolVars == <<buffers, assign, pools, apc, asize, apool, aret>>
userVars == <<cbuffer, cpc, clen, cbuf, cvia, retain, cpos, cn, cerr>>
vars == <<bucketVars, ctxVars, runVars, relVars, callVars, connVars, testVars, poolVars, userVars>>

\* The state at program start when the first Context created is first.
InitFrom(first) ==
    /\ created = FALSE
    /\ pending = {}
    /\ queue = <<>>
    /\ expired = FALSE
    /\ nextCtx = first
    /\ alive = [c \in Ctxs |-> FALSE]
    /\ closed = [c \in Ctxs |-> FALSE]
    /\ pipe = [c \in Ctxs |-> <<>>]
    /\ runPc = "none"
    /\ idleContexts = <<>>
    /\ idles = 0
    /\ relPc = "idle"
    /\ relSet = {}
    /\ pc = [p \in Procs |-> "idle"]
    /\ ctx = [p \in Procs |-> NoCtx]
    /\ len = [p \in Procs |-> 0]
    /\ path = [p \in Procs |-> "splice"]
    /\ raw = [p \in Procs |-> <<TRUE, TRUE>>]
    /\ remain = [p \in Procs |-> 0]
    /\ n = [p \in Procs |-> 0]
    /\ err = [p \in Procs |-> "nil"]
    /\ sys = [p \in Procs |-> "nil"]
    /\ buf = [p \in Procs |-> <<>>]
    /\ pos = [p \in Procs |-> 0]
    /\ taken = [p \in Procs |-> 0]
    /\ wrote = [p \in Procs |-> 0]
    /\ tries = [p \in Procs |-> <<0, FALSE, 0>>]
    /\ src = [p \in Procs |-> Stream(p)]
    /\ dst = [p \in Procs |-> <<>>]
    /\ dstBusy = [p \in Procs |-> FALSE]
    /\ tpc = [t \in Testers |-> "idle"]
    /\ thold = [t \in Testers |-> {}]
    /\ tcur = [t \in Testers |-> NoCtx]
    /\ buffers = [s \in Sizes |-> NoPool]
    /\ assign = 0
    /\ pools = <<>>
    /\ apc = [a \in Assigners |-> "idle"]
    /\ asize = [a \in Assigners |-> maxSpliceSize]
    /\ apool = [a \in Assigners |-> NoPool]
    /\ aret = [a \in Assigners |-> NoPool]
    /\ cbuffer = NoBuffer
    /\ cpc = "idle"
    /\ clen = 0
    /\ cbuf = 0
    /\ cvia = "pool"
    /\ retain = 0
    /\ cpos = 0
    /\ cn = 0
    /\ cerr = "nil"

Init == InitFrom(1)


\* ------------------------------------------------------------ the bucket

\* ctx.Close(): both descriptors are closed; the pipe's buffer goes with them.
Close(cs) ==
    /\ closed' = [c \in Ctxs |-> closed[c] \/ c \in cs]
    /\ pipe' = [c \in Ctxs |-> IF c \in cs THEN <<>> ELSE pipe[c]]

\* bucket.GetInstance: under the lock, the first caller of an inactive shard
\* sets created, replaces pending by a new map and starts run.
GetInstanceEffectAlways ==
    /\ created' = TRUE
    /\ pending' = {}
    /\ expired' = FALSE
    /\ runPc' = "check"
    /\ idleContexts' = <<>>
    /\ idles' = 0
    /\ UNCHANGED queue
GetInstanceEffect ==
    IF ~created
    THEN /\ created' = TRUE
         /\ pending' = {}
         /\ expired' = FALSE
         /\ runPc' = "check"
         /\ idleContexts' = <<>>
         /\ idles' = 0
         /\ UNCHANGED queue
    ELSE UNCHANGED <<bucketVars, runVars>>

\* The Contexts run's tick takes off the queue: copy(idleContexts, b.queue[len(b.queue)/2:]).
EvictedOlder(q) == Take(Take(q, Len(q) - Len(q) \div 2), maxSpliceSize)
Evicted(q) == Take(Drop(q, Len(q) \div 2), maxSpliceSize)

\* The Context Get takes off a non-empty queue: ctx = b.queue[0].
GetPickLast(q) == q[Len(q)]
GetPick(q) == q[1]

\* What Get leaves in the queue: copy(b.queue, b.queue[1:]); b.queue = b.queue[:n].
GetRestKeep(q) == q
GetRest(q) == Tail(q)

\* Free's test for putting the Context back: len(b.queue) < maxIdleContexts && ctx.alive.
FreeKeepsOver(q, a) == Len(q) <= maxIdleContexts /\ a
FreeKeepsDead(q, a) == Len(q) < maxIdleContexts
FreeKeeps(q, a) == Len(q) < maxIdleContexts /\ a

\* Free's other branch: delete(b.pending, ctx).
DeleteNone(pend, c) == pend
Delete(pend, c) == pend \ {c}

\* bucket.run, line 200-208: after the idle time, an empty pending set ends the goroutine.
RunCheck ==
    /\ runPc = "check"
    /\ IF expired /\ pending = {}
       THEN /\ created' = FALSE
            /\ runPc' = "none"
            /\ idleContexts' = <<>>
            /\ idles' = 0
       ELSE /\ runPc' = "evict"
            /\ UNCHANGED <<created, idleContexts, idles>>
    /\ UNCHANGED <<pending, queue, expired, ctxVars, relVars, callVars, connVars, testVars, poolVars, userVars>>

\* bucket.run, line 209-218: the tick, under the lock.
RunEvict ==
    /\ runPc = "evict"
    /\ LET out == Evicted(queue)
           slice == out \o Drop(idleContexts, Len(out))
       IN /\ idles' = Len(out)
          /\ idleContexts' = slice
          /\ IF Len(out) > 0
             THEN /\ queue' = Take(queue, Len(queue) - Len(out))
                  /\ pending' = pending \ Range(slice)
                  /\ runPc' = "close"
             ELSE /\ runPc' = "check"
                  /\ UNCHANGED <<queue, pending>>
    /\ UNCHANGED <<created, expired, ctxVars, relVars, callVars, connVars, testVars, poolVars, userVars>>

\* bucket.run, line 219-223: the evicted Contexts are closed outside the lock.
RunClose ==
    /\ runPc = "close"
    /\ Close(Range(Take(idleContexts, idles)))
    /\ runPc' = "check"
    /\ UNCHANGED <<bucketVars, nextCtx, alive, idleContexts, idles, relVars, callVars, connVars, testVars, poolVars, userVars>>

\* The test's assignBucket(0).GetInstance().Release(): GetInstance first.
RelGetInstance ==
    /\ relPc = "idle"
    /\ GetInstanceEffect
    /\ relPc' = "release"
    /\ UNCHANGED <<ctxVars, relSet, callVars, connVars, testVars, poolVars, userVars>>

\* bucket.Release, line 261-269: under the lock.
ReleaseLock ==
    /\ relPc = "release"
    /\ IF pending = {}
       THEN /\ relPc' = "idle"
            /\ UNCHANGED <<pending, queue, relSet>>
       ELSE /\ relSet' = pending
            /\ pending' = {}
            /\ queue' = <<>>
            /\ relPc' = "close"
    /\ UNCHANGED <<created, expired, ctxVars, runVars, callVars, connVars, testVars, poolVars, userVars>>

\* bucket.Release, line 270-272: every detached Context is closed.
ReleaseClose ==
    /\ relPc = "close"
    /\ Close(relSet)
    /\ relPc' = "idle"
    /\ relSet' = {}
    /\ UNCHANGED <<bucketVars, nextCtx, alive, runVars, callVars, connVars, testVars, poolVars, userVars>>

\* Time passes: the shard has now been idle for more than idleTime.  run's
\* test at line 200 is the only reader, so time is let pass before it.
Elapse ==
    /\ runPc = "check"
    /\ ~expired
    /\ expired' = TRUE
    /\ UNCHANGED <<created, pending, queue, ctxVars, runVars, relVars, callVars, connVars, testVars, poolVars, userVars>>

\* ---------------------------------------------------------------- Splice

\* Lines 54-61: both connections must expose a descriptor (netFd).
NetFdOkDst(dstOk, srcOk) == dstOk
NetFdOk(dstOk, srcOk) == dstOk /\ srcOk

\* Lines 73-75: the length handed to splice(2) on leg 1.
SpliceLen(l) == IF l > maxSpliceSize THEN maxSpliceSize ELSE l

\* spliceBuffer lines 276-279: the size of the buffer Read fills.
BufferSize(l) == IF maxSpliceSize < l THEN l ELSE maxSpliceSize

\* A return statement of Splice after Get succeeded: the deferred Free runs next.
Return(p, nn, e) ==
    /\ n' = [n EXCEPT ![p] = nn]
    /\ err' = [err EXCEPT ![p] = e]
    /\ pc' = [pc EXCEPT ![p] = IF path[p] = "splice" THEN "free" ELSE "done"]

\* Splice is called: netFd(dst), netFd(src), lines 52-61.
Call(p, ls, oks) ==
    /\ pc[p] \in {"idle", "done"}
    /\ \E l \in ls, dstOk \in oks, srcOk \in oks :
          /\ len' = [len EXCEPT ![p] = l]
          /\ raw' = [raw EXCEPT ![p] = <<dstOk, srcOk>>]
          /\ IF NetFdOk(dstOk, srcOk)
             THEN /\ path' = [path EXCEPT ![p] = "splice"]
                  /\ pc' = [pc EXCEPT ![p] = "getInstance"]
             ELSE /\ path' = [path EXCEPT ![p] = "buffer"]
                  /\ pc' = [pc EXCEPT ![p] = "bufRead"]
    /\ ctx' = [ctx EXCEPT ![p] = NoCtx]
    /\ remain' = [remain EXCEPT ![p] = 0]
    /\ n' = [n EXCEPT ![p] = 0]
    /\ err' = [err EXCEPT ![p] = "nil"]
    /\ sys' = [sys EXCEPT ![p] = "nil"]
    /\ buf' = [buf EXCEPT ![p] = <<>>]
    /\ pos' = [pos EXCEPT ![p] = 0]
    /\ taken' = [taken EXCEPT ![p] = 0]
    /\ wrote' = [wrote EXCEPT ![p] = 0]
    /\ tries' = [tries EXCEPT ![p] = <<0, FALSE, 0>>]
    /\ UNCHANGED <<bucketVars, ctxVars, runVars, relVars, connVars, testVars, poolVars, userVars>>

\* Line 63: assignBucket(dstFd).GetInstance().
GetInstance(p) ==
    /\ pc[p] = "getInstance"
    /\ GetInstanceEffect
    /\ pc' = [pc EXCEPT ![p] = "get"]
    /\ UNCHANGED <<ctxVars, relVars, connVars, testVars, poolVars, userVars>>
    /\ UNCHANGED <<ctx, len, path, raw, remain, n, err, sys, buf, pos, taken, wrote, tries>>

\* bucket.Get, lines 228-235 and 244: the locked look at the queue.
Get(p) ==
    /\ pc[p] = "get"
    /\ IF Len(queue) > 0
       THEN /\ ctx' = [ctx EXCEPT ![p] = GetPick(queue)]
            /\ queue' = GetRest(queue)
            /\ expired' = FALSE
            /\ pc' = [pc EXCEPT ![p] = "leg1"]
       ELSE /\ pc' = [pc EXCEPT ![p] = "newContext"]
            /\ UNCHANGED <<ctx, queue, expired>>
    /\ UNCHANGED <<created, pending, ctxVars, runVars, relVars, connVars, testVars, poolVars, userVars>>
    /\ UNCHANGED <<len, path, raw, remain, n, err, sys, buf, pos, taken, wrote, tries>>

\* bucket.Get lines 236-239 with newContext, and Splice lines 66-68:
\* pipe(2) gives a new Context, or fails and Splice returns (0, ErrNotHandled).
NewContext(p) ==
    /\ pc[p] = "newContext"
    /\ \/ /\ nextCtx <= MaxCtx
          /\ ctx' = [ctx EXCEPT ![p] = nextCtx]
          /\ nextCtx' = nextCtx + 1
          /\ pc' = [pc EXCEPT ![p] = "addPending"]
          /\ UNCHANGED <<n, err, sys>>
       \/ /\ sys' = [sys EXCEPT ![p] = "EMFILE"]
          /\ n' = [n EXCEPT ![p] = 0]
          /\ err' = [err EXCEPT ![p] = "ErrNotHandled"]
          /\ pc' = [pc EXCEPT ![p] = "done"]
          /\ UNCHANGED <<ctx, nextCtx>>
    /\ UNCHANGED <<bucketVars, alive, closed, pipe, runVars, relVars, connVars, testVars, poolVars, userVars>>
    /\ UNCHANGED <<len, path, raw, remain, buf, pos, taken, wrote, tries>>

\* bucket.Get lines 240-244: the new Context is entered in pending.
AddPending(p) ==
    /\ pc[p] = "addPending"
    /\ pending' = pending \cup {ctx[p]}
    /\ expired' = FALSE
    /\ pc' = [pc EXCEPT ![p] = "leg1"]
    /\ UNCHANGED <<created, queue, ctxVars, runVars, relVars, connVars, testVars, poolVars, userVars>>
    /\ UNCHANGED <<ctx, len, path, raw, remain, n, err, sys, buf, pos, taken, wrote, tries>>

\* One more leg-1 / Read call was made (the count stops at 2).
Tried1(p) == [tries EXCEPT ![p] = <<Min(@[1] + 1, 2), @[2], @[3]>>]
\* A leg-2 / Write call was made; again is whether it reported EAGAIN with
\* nothing moved, so that the loop takes another turn.
Tried2(p, again) ==
    [tries EXCEPT ![p] = <<@[1], TRUE, IF again THEN (@[3] + 1) % 2 ELSE 0>>]

\* Lines 80-82 when leg 1 reports EAGAIN: return 0, err.
Leg1AgainRetry(p) == UNCHANGED <<n, err, pc>>
Leg1Again(p) == Return(p, 0, "EAGAIN")

\* Lines 83-85: leg 1 moved nothing and reported no error.
Leg1EofNil(p) == Return(p, 0, "nil")
Leg1Eof(p) == Return(p, 0, "EOF")

\* Lines 89-93 (spliceBuffer 296-301): a write that moved out > 0 bytes;
\* when nothing remains the loop ends and the function returns (n, nil).
LoopAdvanceOnce(p, out) ==
    /\ remain' = [remain EXCEPT ![p] = @ - out]
    /\ pos' = [pos EXCEPT ![p] = IF path[p] = "buffer" THEN @ + out ELSE @]
    /\ Return(p, n[p] + out, "nil")
LoopAdvanceNoCount(p, out) ==
    /\ remain' = [remain EXCEPT ![p] = @ - out]
    /\ pos' = [pos EXCEPT ![p] = IF path[p] = "buffer" THEN @ + out ELSE @]
    /\ IF remain[p] - out > 0
       THEN UNCHANGED <<n, err, pc>>
       ELSE Return(p, n[p], "nil")
LoopAdvanceNoPos(p, out) ==
    /\ remain' = [remain EXCEPT ![p] = @ - out]
    /\ UNCHANGED pos
    /\ IF remain[p] - out > 0
       THEN /\ n' = [n EXCEPT ![p] = @ + out]
            /\ UNCHANGED <<err, pc>>
       ELSE Return(p, n[p] + out, "nil")
LoopAdvance(p, out) ==
    /\ remain' = [remain EXCEPT ![p] = @ - out]
    /\ pos' = [pos EXCEPT ![p] = IF path[p] = "buffer" THEN @ + out ELSE @]
    /\ IF remain[p] - out > 0
       THEN /\ n' = [n EXCEPT ![p] = @ + out]
            /\ UNCHANGED <<err, pc>>
       ELSE Return(p, n[p] + out, "nil")

\* Lines 94-96 (spliceBuffer 302-304): a write that moved nothing and
\* reported something other than EAGAIN: return n, EOF.
LoopFailZero(p) == Return(p, 0, "EOF")
LoopFail(p) == Return(p, n[p], "EOF")

\* Line 70: ctx.alive = false, whatever the flag was.
NotAliveKept(a) == a
NotAlive(a) == FALSE

\* Line 98: ctx.alive = true, reached only when the loop ended with nothing
\* left to write (finished); every return inside the loop leaves the flag.
MarkAliveAlways(finished) == TRUE
MarkAlive(finished) == finished

\* Lines 69-85: ctx.alive = false, then leg 1, splice(srcFd -> ctx.writer).
Leg1(p) ==
    /\ pc[p] = "leg1"
    /\ tries' = Tried1(p)
    /\ alive' = [alive EXCEPT ![ctx[p]] = NotAlive(@)]
    /\ \/ /\ closed[ctx[p]]
          /\ sys' = [sys EXCEPT ![p] = "EBADF"]
          /\ Return(p, 0, "EBADF")
          /\ UNCHANGED <<pipe, src, remain, taken>>
       \/ /\ ~closed[ctx[p]]
          /\ sys' = [sys EXCEPT ![p] = "ECONNRESET"]
          /\ Return(p, 0, "ECONNRESET")
          /\ UNCHANGED <<pipe, src, remain, taken>>
       \/ /\ ~closed[ctx[p]]
          /\ sys' = [sys EXCEPT ![p] = "EAGAIN"]
          /\ Leg1Again(p)
          /\ UNCHANGED <<pipe, src, remain, taken>>
       \/ /\ ~closed[ctx[p]]
          /\ src[p] = <<>>
          /\ sys' = [sys EXCEPT ![p] = "nil"]
          /\ Leg1Eof(p)
          /\ UNCHANGED <<pipe, src, remain, taken>>
       \/ /\ ~closed[ctx[p]]
          /\ \E k \in 1..Min(SpliceLen(len[p]), Len(src[p])) :
                /\ pipe' = [pipe EXCEPT ![ctx[p]] = @ \o Take(src[p], k)]
                /\ src' = [src EXCEPT ![p] = Drop(@, k)]
                /\ remain' = [remain EXCEPT ![p] = k]
                /\ taken' = [taken EXCEPT ![p] = k]
          /\ sys' = [sys EXCEPT ![p] = "nil"]
          /\ pc' = [pc EXCEPT ![p] = "leg2"]
          /\ UNCHANGED <<n, err>>
    /\ UNCHANGED <<bucketVars, nextCtx, closed, runVars, relVars, dst, dstBusy, testVars, poolVars, userVars>>
    /\ UNCHANGED <<ctx, len, path, raw, buf, pos, wrote>>

\* Lines 86-99: one turn of the leg-2 loop, splice(ctx.reader -> dstFd),
\* and, when nothing remains, ctx.alive = true; return n, nil.
Leg2(p) ==
    /\ pc[p] = "leg2"
    /\ \/ /\ closed[ctx[p]]
          /\ sys' = [sys EXCEPT ![p] = "EBADF"]
          /\ tries' = Tried2(p, FALSE)
          /\ LoopFail(p)
          /\ UNCHANGED <<alive, pipe, dst, remain, pos, wrote>>
       \/ /\ ~closed[ctx[p]]
          /\ sys' = [sys EXCEPT ![p] = "EPIPE"]
          /\ tries' = Tried2(p, FALSE)
          /\ LoopFail(p)
          /\ UNCHANGED <<alive, pipe, dst, remain, pos, wrote>>
       \/ /\ ~closed[ctx[p]]
          /\ dstBusy[p] \/ pipe[ctx[p]] = <<>>
          /\ sys' = [sys EXCEPT ![p] = "EAGAIN"]
          /\ tries' = Tried2(p, TRUE)
          /\ UNCHANGED <<alive, pipe, dst, remain, pos, wrote, n, err, pc>>
       \/ /\ ~closed[ctx[p]]
          /\ ~dstBusy[p]
          /\ \E out \in 1..Min(remain[p], Len(pipe[ctx[p]])) :
                /\ pipe' = [pipe EXCEPT ![ctx[p]] = Drop(@, out)]
                /\ dst' = [dst EXCEPT ![p] = @ \o Take(pipe[ctx[p]], out)]
                /\ wrote' = [wrote EXCEPT ![p] = @ + out]
                /\ LoopAdvance(p, out)
          /\ alive' = [alive EXCEPT ![ctx[p]] = MarkAlive(pc'[p] = "free")]
          /\ sys' = [sys EXCEPT ![p] = "nil"]
          /\ tries' = Tried2(p, FALSE)
    /\ UNCHANGED <<bucketVars, nextCtx, closed, runVars, relVars, src, dstBusy, testVars, poolVars, userVars>>
    /\ UNCHANGED <<ctx, len, path, raw, buf, taken>>

\* bucket.Free, lines 249-255: under the lock, the Context goes back to the
\* queue or leaves pending.
Free(p) ==
    /\ pc[p] = "free"
    /\ IF FreeKeeps(queue, alive[ctx[p]])
       THEN /\ queue' = Append(queue, ctx[p])
            /\ pc' = [pc EXCEPT ![p] = "done"]
            /\ UNCHANGED pending
       ELSE /\ pending' = Delete(pending, ctx[p])
            /\ pc' = [pc EXCEPT ![p] = "freeClose"]
            /\ UNCHANGED queue
    /\ UNCHANGED <<created, expired, ctxVars, runVars, relVars, connVars, testVars, poolVars, userVars>>
    /\ UNCHANGED <<ctx, len, path, raw, remain, n, err, sys, buf, pos, taken, wrote, tries>>

\* bucket.Free, line 256: ctx.Close() outside the lock.
FreeClose(p) ==
    /\ pc[p] = "freeClose"
    /\ Close({ctx[p]})
    /\ pc' = [pc EXCEPT ![p] = "done"]
    /\ UNCHANGED <<bucketVars, nextCtx, alive, runVars, relVars, connVars, testVars, poolVars, userVars>>
    /\ UNCHANGED <<ctx, len, path, raw, remain, n, err, sys, buf, pos, taken, wrote, tries>>

\* ----------------------------------------------------------- spliceBuffer

\* spliceBuffer lines 276-291: one Read into a pooled buffer of BufferSize(len) bytes.
BufRead(p) ==
    /\ pc[p] = "bufRead"
    /\ tries' = Tried1(p)
    /\ \/ /\ \E e \in {"EAGAIN", "ECONNRESET"} :
                /\ sys' = [sys EXCEPT ![p] = e]
                /\ Return(p, 0, e)
          /\ UNCHANGED <<src, buf, remain, taken>>
       \/ /\ src[p] = <<>>
          /\ \E e \in {"nil", "EOF"} :
                /\ sys' = [sys EXCEPT ![p] = e]
                /\ Return(p, 0, "EOF")
          /\ UNCHANGED <<src, buf, remain, taken>>
       \/ /\ \E k \in 1..Min(BufferSize(len[p]), Len(src[p])) :
                /\ buf' = [buf EXCEPT ![p] = Take(src[p], k)]
                /\ src' = [src EXCEPT ![p] = Drop(@, k)]
                /\ remain' = [remain EXCEPT ![p] = k]
                /\ taken' = [taken EXCEPT ![p] = k]
          /\ sys' = [sys EXCEPT ![p] = "nil"]
          /\ pc' = [pc EXCEPT ![p] = "bufWrite"]
          /\ UNCHANGED <<n, err>>
    /\ UNCHANGED <<bucketVars, ctxVars, runVars, relVars, dst, dstBusy, testVars, poolVars, userVars>>
    /\ UNCHANGED <<ctx, len, path, raw, pos, wrote>>

\* spliceBuffer lines 292-306: one turn of the write loop, dst.Write(buf[pos : pos+remain]).
BufWrite(p) ==
    /\ pc[p] = "bufWrite"
    /\ \/ /\ sys' = [sys EXCEPT ![p] = "EPIPE"]
          /\ tries' = Tried2(p, FALSE)
          /\ LoopFail(p)
          /\ UNCHANGED <<dst, remain, pos, wrote>>
       \/ /\ dstBusy[p]
          /\ sys' = [sys EXCEPT ![p] = "EAGAIN"]
          /\ tries' = Tried2(p, TRUE)
          /\ UNCHANGED <<dst, remain, pos, wrote, n, err, pc>>
       \/ /\ ~dstBusy[p]
          /\ \E out \in 1..remain[p] :
                /\ dst' = [dst EXCEPT ![p] = @ \o SubSeq(buf[p], pos[p] + 1, pos[p] + out)]
                /\ wrote' = [wrote EXCEPT ![p] = @ + out]
                /\ LoopAdvance(p, out)
          /\ sys' = [sys EXCEPT ![p] = "nil"]
          /\ tries' = Tried2(p, FALSE)
    /\ UNCHANGED <<bucketVars, ctxVars, runVars, relVars, src, dstBusy, testVars, poolVars, userVars>>
    /\ UNCHANGED <<ctx, len, path, raw, buf, taken>>

\* ------------------------------------------------------------- assignPool

\* assignPool(size) is called, line 144.
AssignPoolCall(a) ==
    /\ apc[a] \in {"idle", "done"}
    /\ \E s \in Sizes : asize' = [asize EXCEPT ![a] = s]
    /\ apool' = [apool EXCEPT ![a] = NoPool]
    /\ aret' = [aret EXCEPT ![a] = NoPool]
    /\ apc' = [apc EXCEPT ![a] = "load"]
    /\ UNCHANGED <<buffers, assign, pools>>
    /\ UNCHANGED <<bucketVars, ctxVars, runVars, relVars, callVars, connVars, testVars, userVars>>

\* Lines 146-148: buffers.Load(size); an entry found is returned.
AssignPoolLoad(a) ==
    /\ apc[a] = "load"
    /\ IF buffers[asize[a]] # NoPool
       THEN /\ aret' = [aret EXCEPT ![a] = buffers[asize[a]]]
            /\ apc' = [apc EXCEPT ![a] = "done"]
       ELSE /\ apc' = [apc EXCEPT ![a] = "cas"]
            /\ UNCHANGED aret
    /\ UNCHANGED <<buffers, assign, pools, asize, apool>>
    /\ UNCHANGED <<bucketVars, ctxVars, runVars, relVars, callVars, connVars, testVars, userVars>>

\* Lines 149-152: atomic.CompareAndSwapInt32(&assign, 0, 1); the winner
\* makes a new pool, the loser goes round the loop to Load again.
AssignPoolCAS(a) ==
    /\ apc[a] = "cas"
    /\ IF assign = 0
       THEN /\ assign' = 1
            /\ pools' = Append(pools, asize[a])
            /\ apool' = [apool EXCEPT ![a] = Len(pools) + 1]
            /\ apc' = [apc EXCEPT ![a] = "store"]
       ELSE /\ apc' = [apc EXCEPT ![a] = "load"]
            /\ UNCHANGED <<assign, pools, apool>>
    /\ UNCHANGED <<buffers, asize, aret>>
    /\ UNCHANGED <<bucketVars, ctxVars, runVars, relVars, callVars, connVars, testVars, userVars>>

\* Line 153: buffers.Store(size, pool).
AssignPoolStore(a) ==
    /\ apc[a] = "store"
    /\ buffers' = [buffers EXCEPT ![asize[a]] = apool[a]]
    /\ apc' = [apc EXCEPT ![a] = "unflag"]
    /\ UNCHANGED <<assign, pools, asize, apool, aret>>
    /\ UNCHANGED <<bucketVars, ctxVars, runVars, relVars, callVars, connVars, testVars, userVars>>

\* Lines 154-155: atomic.StoreInt32(&assign, 0); return pool.
AssignPoolReturn(a) ==
    /\ apc[a] = "unflag"
    /\ assign' = 0
    /\ aret' = [aret EXCEPT ![a] = apool[a]]
    /\ apc' = [apc EXCEPT ![a] = "done"]
    /\ UNCHANGED <<buffers, pools, asize, apool>>
    /\ UNCHANGED <<bucketVars, ctxVars, runVars, relVars, callVars, connVars, testVars, userVars>>

\* ------------------------------------- Splice with a caller-supplied Context

\* NewContext (splice_other.go 13-17, splice_bsd.go 16-22): the Context's
\* buffer is maxSpliceSize bytes long.
UserNewContext ==
    /\ cpc \in {"idle", "done"}
    /\ cbuffer = NoBuffer
    /\ cbuffer' = maxSpliceSize
    /\ UNCHANGED <<cpc, clen, cbuf, cvia, retain, cpos, cn, cerr>>
    /\ UNCHANGED <<bucketVars, ctxVars, runVars, relVars, callVars, connVars, testVars, poolVars>>

\* ctx.Close(): the caller goes on with a nil Context.
UserClose ==
    /\ cpc \in {"idle", "done"}
    /\ cbuffer # NoBuffer
    /\ cbuffer' = NoBuffer
    /\ UNCHANGED <<cpc, clen, cbuf, cvia, retain, cpos, cn, cerr>>
    /\ UNCHANGED <<bucketVars, ctxVars, runVars, relVars, callVars, connVars, testVars, poolVars>>

\* Splice(dst, src, ctx, len), part_002 65-77 (splice_bsd.go 36-52):
\* bufferSize = max(maxSpliceSize, len); with a Context, buf =
\* ctx.buffer[:bufferSize], which panics when bufferSize is over
\* cap(ctx.buffer); without one the buffer is a shared-memory segment of
\* that size (splice_bsd.go 45-51) or, when that fails and on the other
\* platforms, comes from the pool of that size (part_002 73-75).
UserSplice ==
    /\ cpc \in {"idle", "done"}
    /\ \E l \in Lens :
          /\ clen' = l
          /\ IF cbuffer # NoBuffer /\ BufferSize(l) > cbuffer
             THEN /\ cpc' = "panic"
                  /\ cbuf' = 0
             ELSE /\ cpc' = "read"
                  /\ cbuf' = BufferSize(l)
    /\ IF cbuffer # NoBuffer
       THEN cvia' = "ctx"
       ELSE cvia' \in {"shm", "pool"}
    /\ retain' = 0
    /\ cpos' = 0
    /\ cn' = 0
    /\ cerr' = "nil"
    /\ UNCHANGED cbuffer
    /\ UNCHANGED <<bucketVars, ctxVars, runVars, relVars, callVars, connVars, testVars, poolVars>>

\* part_002 78-82: retain, err = src.Read(buf); an error returns (0, err).
UserRead ==
    /\ cpc = "read"
    /\ \/ /\ \E e \in {"EAGAIN", "ECONNRESET", "EOF"} : cerr' = e
          /\ cpc' = "done"
          /\ UNCHANGED retain
       \/ /\ \E k \in 0..cbuf :
                /\ retain' = k
                /\ cpc' = IF k > 0 THEN "write" ELSE "done"
          /\ UNCHANGED cerr
    /\ UNCHANGED <<cbuffer, clen, cbuf, cvia, cpos, cn>>
    /\ UNCHANGED <<bucketVars, ctxVars, runVars, relVars, callVars, connVars, testVars, poolVars>>

\* part_002 85-99: one turn of the loop, dst.Write(buf[pos : pos+retain]);
\* on EAGAIN with nothing written the loop sleeps and goes round.
UserWrite ==
    /\ cpc = "write"
    /\ \/ /\ \E out \in 1..retain :
                /\ retain' = retain - out
                /\ cn' = cn + out
                /\ cpos' = cpos + out
                /\ cpc' = IF retain - out > 0 THEN "write" ELSE "done"
          /\ UNCHANGED cerr
       \/ /\ cerr' = "EPIPE"
          /\ cpc' = "done"
          /\ UNCHANGED <<retain, cn, cpos>>
       \/ UNCHANGED <<retain, cn, cpos, cerr, cpc>>
    /\ UNCHANGED <<cbuffer, clen, cbuf, cvia>>
    /\ UNCHANGED <<bucketVars, ctxVars, runVars, relVars, callVars, connVars, testVars, poolVars>>

\* ------------------------------------------------------------- TestBucket

\* part_001 lines 150 and 160: assignBucket(0).GetInstance(), before Get
\* (want = "get") or before Free of a Context of ctxs (want = "free").
TGetInstance(t) ==
    /\ tpc[t] = "idle"
    /\ GetInstanceEffect
    /\ \/ /\ tpc' = [tpc EXCEPT ![t] = "get"]
          /\ UNCHANGED <<thold, tcur>>
       \/ \E c \in thold[t] :
             /\ tpc' = [tpc EXCEPT ![t] = "free"]
             /\ tcur' = [tcur EXCEPT ![t] = c]
             /\ thold' = [thold EXCEPT ![t] = @ \ {c}]
    /\ UNCHANGED <<ctxVars, relVars, callVars, connVars, poolVars, userVars>>

\* bucket.Get lines 228-235 and 244, then part_001 lines 154-155:
\* ctx.alive = true; ctxs[i] = ctx.
TGet(t) ==
    /\ tpc[t] = "get"
    /\ IF Len(queue) > 0
       THEN /\ queue' = GetRest(queue)
            /\ expired' = FALSE
            /\ alive' = [alive EXCEPT ![GetPick(queue)] = TRUE]
            /\ thold' = [thold EXCEPT ![t] = @ \cup {GetPick(queue)}]
            /\ tpc' = [tpc EXCEPT ![t] = "idle"]
       ELSE /\ tpc' = [tpc EXCEPT ![t] = "newContext"]
            /\ UNCHANGED <<queue, expired, alive, thold>>
    /\ UNCHANGED <<created, pending, nextCtx, closed, pipe, runVars, relVars>>
    /\ UNCHANGED <<callVars, connVars, poolVars, userVars, tcur>>

\* bucket.Get lines 236-239 with newContext; on an error the test goes on.
TNewContext(t) ==
    /\ tpc[t] = "newContext"
    /\ \/ /\ nextCtx <= MaxCtx
          /\ tcur' = [tcur EXCEPT ![t] = nextCtx]
          /\ nextCtx' = nextCtx + 1
          /\ tpc' = [tpc EXCEPT ![t] = "addPending"]
       \/ /\ tpc' = [tpc EXCEPT ![t] = "idle"]
          /\ UNCHANGED <<tcur, nextCtx>>
    /\ UNCHANGED <<bucketVars, alive, closed, pipe, runVars, relVars>>
    /\ UNCHANGED <<callVars, connVars, poolVars, userVars, thold>>

\* bucket.Get lines 240-244, then part_001 lines 154-155.
TAddPending(t) ==
    /\ tpc[t] = "addPending"
    /\ pending' = pending \cup {tcur[t]}
    /\ expired' = FALSE
    /\ alive' = [alive EXCEPT ![tcur[t]] = TRUE]
    /\ thold' = [thold EXCEPT ![t] = @ \cup {tcur[t]}]
    /\ tcur' = [tcur EXCEPT ![t] = NoCtx]
    /\ tpc' = [tpc EXCEPT ![t] = "idle"]
    /\ UNCHANGED <<created, queue, nextCtx, closed, pipe, runVars, relVars>>
    /\ UNCHANGED <<callVars, connVars, poolVars, userVars>>

\* bucket.Free lines 249-255, called from part_001 line 160.
TFree(t) ==
    /\ tpc[t] = "free"
    /\ IF FreeKeeps(queue, alive[tcur[t]])
       THEN /\ queue' = Append(queue, tcur[t])
            /\ tpc' = [tpc EXCEPT ![t] = "idle"]
            /\ tcur' = [tcur EXCEPT ![t] = NoCtx]
            /\ UNCHANGED pending
       ELSE /\ pending' = Delete(pending, tcur[t])
            /\ tpc' = [tpc EXCEPT ![t] = "freeClose"]
            /\ UNCHANGED <<queue, tcur>>
    /\ UNCHANGED <<created, expired, ctxVars, runVars, relVars>>
    /\ UNCHANGED <<callVars, connVars, poolVars, userVars, thold>>

\* bucket.Free line 256.
TFreeClose(t) ==
    /\ tpc[t] = "freeClose"
    /\ Close({tcur[t]})
    /\ tpc' = [tpc EXCEPT ![t] = "idle"]
    /\ tcur' = [tcur EXCEPT ![t] = NoCtx]
    /\ UNCHANGED <<bucketVars, nextCtx, alive, runVars, relVars>>
    /\ UNCHANGED <<callVars, connVars, poolVars, userVars, thold>>

\* ------------------------------------------------------------ environment

\* The destination's peer stops reading: its send buffer fills up.
DstFill(p) ==
    /\ pc[p] \in {"leg2", "bufWrite"}
    /\ ~dstBusy[p]
    /\ dstBusy' = [dstBusy EXCEPT ![p] = TRUE]
    /\ UNCHANGED <<bucketVars, ctxVars, runVars, relVars, callVars, src, dst, testVars, poolVars, userVars>>

\* The destination's peer reads again.
DstDrain(p) ==
    /\ dstBusy[p]
    /\ dstBusy' = [dstBusy EXCEPT ![p] = FALSE]
    /\ UNCHANGED <<bucketVars, ctxVars, runVars, relVars, callVars, src, dst, testVars, poolVars, userVars>>

\* ---------------------------------------------------------- specification

\* The steps of Splice on the zero-copy path.
SpliceSteps(p) ==
    \/ GetInstance(p)
    \/ Get(p)
    \/ NewContext(p)
    \/ AddPending(p)
    \/ Leg1(p)
    \/ Leg2(p)
    \/ Free(p)
    \/ FreeClose(p)

\* The steps of spliceBuffer.
BufferSteps(p) == BufRead(p) \/ BufWrite(p)

Run == RunCheck \/ RunEvict \/ RunClose

Releaser == RelGetInstance \/ ReleaseLock \/ ReleaseClose

Environment(p) == DstFill(p) \/ DstDrain(p)

Tester(t) ==
    \/ TGetInstance(t)
    \/ TGet(t)
    \/ TNewContext(t)
    \/ TAddPending(t)
    \/ TFree(t)
    \/ TFreeClose(t)

\* A caller of Splice with every input (any len, connections that expose a
\* descriptor or not) and the shard's run goroutine.
Next ==
    \/ \E p \in Solo : Call(p, Lens, BOOLEAN) \/ SpliceSteps(p) \/ BufferSteps(p)
    \/ Run
    \/ Elapse
    \/ \E p \in Solo : Environment(p)

Spec == Init /\ [][Next]_vars

\* The same, with the Go scheduler's guarantee that a runnable goroutine
\* runs: a call in flight takes its next step.  Nothing is assumed of the
\* peers of the connections or of the other goroutines.
FairSpec == Spec /\ \A p \in Solo : WF_vars(SpliceSteps(p) \/ BufferSteps(p))

\* Two callers of Splice on connections that expose descriptors, one byte a
\* call, with the run goroutine and a Release caller.
PoolNext ==
    \/ \E p \in Procs : Call(p, {1}, {TRUE}) \/ SpliceSteps(p)
    \/ Run
    \/ Releaser
    \/ Elapse

\* PoolSpec starts with one of the MaxCtx Contexts spent: the callers share
\* MaxCtx - 1 Contexts.
PoolSpec == InitFrom(2) /\ [][PoolNext]_vars

\* TestBucket: a goroutine that checks Contexts out, marks them alive and
\* frees them, with the run goroutine and a Release caller.
BucketNext ==
    \/ \E t \in Testers : Tester(t)
    \/ Run
    \/ Releaser
    \/ Elapse

BucketSpec == Init /\ [][BucketNext]_vars

\* One caller of Splice, one byte a call, beside a TestBucket-style user of
\* the same shard that keeps up to maxIdleContexts Contexts, with the run
\* goroutine: Free meets dead Contexts and a full queue.
FreeNext ==
    \/ \E p \in Solo : Call(p, {1}, {TRUE}) \/ SpliceSteps(p)
    \/ \E t \in Testers : Tester(t)
    \/ Run
    \/ Elapse

FreeSpec == Init /\ [][FreeNext]_vars

\* Concurrent callers of assignPool, as concurrent spliceBuffer calls are.
AssignNext ==
    \E a \in Assigners :
        \/ AssignPoolCall(a)
        \/ AssignPoolLoad(a)
        \/ AssignPoolCAS(a)
        \/ AssignPoolStore(a)
        \/ AssignPoolReturn(a)

AssignSpec == Init /\ [][AssignNext]_vars

\* A caller of the Splice variants that take a Context, with and without one.
UserNext ==
    \/ UserNewContext
    \/ UserClose
    \/ UserSplice
    \/ UserRead
    \/ UserWrite

UserSpec == Init /\ [][UserNext]_vars

\* ------------------------------------------------------------ properties

\* The call of p executed a return statement of Splice or spliceBuffer (on
\* the zero-copy path the deferred b.Free(ctx) may still be running).
Returned(p) == pc[p] \in {"free", "freeClose", "done"}

\* The call of p is in its outbound write loop (leg 2, or spliceBuffer's).
InLoop(p) == pc[p] \in {"leg2", "bufWrite"}

\* C1: in the write loop, the bytes written so far are n and n + remain is
\* what the call took from its source; a call that returned (n, nil) has
\* remain = 0, and n is both what it took from the source and what it wrote
\* to the destination.
C1_Conservation ==
    \A p \in Procs :
        /\ InLoop(p) => /\ n[p] = wrote[p]
                        /\ wrote[p] + remain[p] = taken[p]
                        /\ remain[p] > 0
        /\ (Returned(p) /\ err[p] = "nil") => /\ remain[p] = 0
                                              /\ n[p] = taken[p]
                                              /\ n[p] = wrote[p]
                                              /\ n[p] > 0

\* C1 witness: a zero-copy call returned (SrcLen, nil) after a partial write,
\* and the destination holds the whole stream.
C1_Witness ==
    \E p \in Procs :
        /\ pc[p] = "done" /\ path[p] = "splice" /\ err[p] = "nil"
        /\ n[p] = SrcLen /\ dst[p] = Stream(p)

\* C2: on every path, what a call took from its source and the n it returns
\* are at most the len it was given.
C2_WithinLen ==
    \A p \in Procs :
        pc[p] # "idle" => (taken[p] <= len[p] /\ n[p] <= len[p])

\* C2, the failing call: spliceBuffer with len = 1 read 2 bytes into its
\* buffer of max(maxSpliceSize, len) bytes and returned (2, nil).
C2_Witness ==
    \E p \in Procs :
        /\ pc[p] = "done" /\ path[p] = "buffer" /\ len[p] = 1
        /\ err[p] = "nil" /\ n[p] = 2 /\ taken[p] = 2

\* The first leg-1 move / Read of p's call found its source at a clean end
\* of stream: nothing read and no error (or, from Read, io.EOF).
CleanEof(p) ==
    /\ tries[p][1] = 1
    /\ taken[p] = 0
    /\ (sys[p] = "nil" \/ (path[p] = "buffer" /\ sys[p] = "EOF"))

WriteFailed(p) == tries[p][2] /\ sys[p] \in {"EPIPE", "EBADF"}

Leg1Unavailable(p) == path[p] = "splice" /\ ~tries[p][2] /\ sys[p] = "EAGAIN"

\* C5: when leg 1 reports EAGAIN the call returns (0, EAGAIN) at once: leg 1
\* was tried once, leg 2 not at all, and the destination received nothing.
C5_Leg1Again ==
    \A p \in Procs :
        Leg1Unavailable(p) =>
            /\ Returned(p)
            /\ n[p] = 0 /\ err[p] = "EAGAIN"
            /\ tries[p] = <<1, FALSE, 0>>
            /\ taken[p] = 0 /\ wrote[p] = 0

\* C5 witness: a call is over with (0, EAGAIN) from leg 1.
C5_Witness ==
    \E p \in Procs :
        /\ Leg1Unavailable(p) /\ pc[p] = "done"
        /\ Len(src[p]) > 0

\* C6: when Get fails (pipe(2) fails in newContext), the call goes on with
\* the fallback copy.
C6_GetFailureFallsBack ==
    \A p \in Procs :
        sys[p] = "EMFILE" => pc[p] = "bufRead"

\* C6, the failing call: Get failed and Splice returned (0, ErrNotHandled)
\* with the source untouched.
C6_Witness ==
    \E p \in Procs :
        /\ sys[p] = "EMFILE" /\ pc[p] = "done" /\ raw[p] = <<TRUE, TRUE>>
        /\ n[p] = 0 /\ err[p] = "ErrNotHandled"
        /\ tries[p][1] = 0 /\ Len(src[p]) > 0

\* A step of p's call.
CallStep(p) ==
    <<pc[p], n[p], err[p], sys[p], tries[p], ctx[p], remain[p]>>'
        # <<pc[p], n[p], err[p], sys[p], tries[p], ctx[p], remain[p]>>

\* C7: a call on connections of which one exposes no descriptor runs
\* spliceBuffer and nothing else: none of its steps changes the bucket, a
\* Context or the run goroutine, and it never holds a Context.
C7_NoPoolOnFallback ==
    [][\A p \in Procs :
          (CallStep(p) /\ raw'[p] # <<TRUE, TRUE>>) =>
              /\ UNCHANGED <<bucketVars, ctxVars, runVars>>
              /\ path'[p] = "buffer"
              /\ pc'[p] \in {"bufRead", "bufWrite", "done"}
              /\ ctx'[p] = NoCtx]_vars

\* C7 witness: a call whose source exposes no descriptor delivered two bytes
\* while the shard was never activated.
C7_Witness ==
    \E p \in Procs :
        /\ raw[p] = <<TRUE, FALSE>> /\ pc[p] = "done"
        /\ err[p] = "nil" /\ n[p] = 2
        /\ ~created /\ nextCtx = 1

\* A call of p is in flight.
Started(p) == pc[p] \notin {"idle", "done"}

\* What a call that is over returned: the whole chunk, (n, EOF) from a clean
\* end of stream or a failed write, the error of the first read with n = 0
\* (EAGAIN among them), or (0, ErrNotHandled).
Outcome(p) ==
    \/ err[p] = "nil" /\ remain[p] = 0 /\ n[p] = taken[p] /\ n[p] > 0
    \/ err[p] = "EOF" /\ n[p] = wrote[p]
    \/ err[p] \in {"EAGAIN", "ECONNRESET", "EBADF", "ErrNotHandled"} /\ n[p] = 0

\* C8 as stated: every call, once started, eventually returns.
C8_EveryCallReturns ==
    \A p \in Procs : Started(p) ~> (pc[p] = "done")

\* C8, amended: a call that is over returned one of the outcomes above, and
\* every call eventually returns unless its destination stays temporarily
\* unavailable for ever (the write loop then retries for ever).
C8_ReturnsUnlessBusyForever ==
    \A p \in Procs :
        /\ [](pc[p] = "done" => Outcome(p))
        /\ (<>[](~dstBusy[p])) => (Started(p) ~> (pc[p] = "done"))

\* C8 witness: after one byte was delivered, spliceBuffer's write loop took
\* two turns in a row on EAGAIN and is about to take another.
C8_Witness ==
    \E p \in Procs :
        /\ pc[p] = "bufWrite" /\ sys[p] = "EAGAIN" /\ dstBusy[p]
        /\ tries[p] = <<1, TRUE, 0>>
        /\ wrote[p] = 1 /\ remain[p] = 1

\* The Contexts the call of p holds, from inside Get to the end of Free.
HeldBy(p) ==
    IF pc[p] \in {"addPending", "leg1", "leg2", "free", "freeClose"}
    THEN {ctx[p]} ELSE {}

\* The Contexts the TestBucket-style user t holds.
THeldBy(t) ==
    thold[t] \cup (IF tpc[t] \in {"addPending", "free", "freeClose"}
                   THEN {tcur[t]} ELSE {})

\* C9: no Context is held by two users of the bucket at once, a held Context
\* is not in the idle queue, and the idle queue holds no Context twice.
C9_ExclusiveHold ==
    /\ \A p \in Procs, t \in Testers : HeldBy(p) \cap THeldBy(t) = {}
    /\ \A p, q \in Procs : p # q => HeldBy(p) \cap HeldBy(q) = {}
    /\ \A t, u \in Testers : t # u => THeldBy(t) \cap THeldBy(u) = {}
    /\ \A p \in Procs : HeldBy(p) \cap Range(queue) = {}
    /\ \A t \in Testers : THeldBy(t) \cap Range(queue) = {}
    /\ \A i, j \in 1..Len(queue) : queue[i] = queue[j] => i = j

\* C9 witness: two Splice calls are in leg 2, one of them on a Context it
\* took from the queue, while Release is closing both Contexts.
C9_Witness ==
    \E p, q \in Procs :
        /\ p # q /\ pc[p] = "leg2" /\ pc[q] = "leg2"
        /\ relPc = "close" /\ {ctx[p], ctx[q]} \subseteq relSet
        /\ Len(src[p]) = 0

\* C10: the idle queue never holds more than maxIdleContexts Contexts, and a
\* Context that Free did not put back is in neither the queue nor pending
\* while Free closes it.
C10_QueueCapped ==
    /\ Len(queue) <= maxIdleContexts
    /\ \A t \in Testers :
          tpc[t] = "freeClose" =>
              /\ tcur[t] \notin Range(queue)
              /\ tcur[t] \notin pending
              /\ alive[tcur[t]]

\* C10 witness: maxIdleContexts + 1 Contexts were checked out and all were
\* freed; the queue holds maxIdleContexts of them and the other one is closed.
C10_Witness ==
    /\ nextCtx = maxIdleContexts + 2
    /\ \A t \in Testers : tpc[t] = "idle" /\ thold[t] = {}
    /\ Len(queue) = maxIdleContexts
    /\ Cardinality({c \in Ctxs : closed[c]}) = 1
    /\ \A c \in Range(queue) : alive[c] /\ ~closed[c] /\ c \in pending
    /\ idleContexts = <<>> /\ relPc = "idle"

Quiet ==
    /\ relPc = "idle"
    /\ \A t \in Testers : tpc[t] = "idle" /\ thold[t] = {}

\* C12: once nothing is checked out and no Get is under way, run drains the
\* queue before it deactivates the shard and exits: a quiet shard that is
\* inactive, with no run left to drain it, has an empty queue.
C12_IdleShardDrained ==
    (Quiet /\ ~created /\ runPc = "none") => queue = <<>>

\* C12, the failing state: the shard is quiet and inactive, no run goroutine
\* exists, and an open Context sits in the queue.
C12_Witness ==
    /\ Quiet /\ ~created /\ runPc = "none"
    /\ \E c \in Range(queue) : ~closed[c]

\* The Contexts Get has handed out so far (one still inside Get, created but
\* not yet added to pending, is not counted).
Handed ==
    (1..(nextCtx - 1))
        \ ({ctx[p] : p \in {q \in Procs : pc[q] = "addPending"}}
           \cup {tcur[t] : t \in {u \in Testers : tpc[u] = "addPending"}})

\* A Context is destroyed once Close ran on it; one that left the bucket and
\* waits for its Close outside the lock counts as destroyed.
Destroyed(c) ==
    \/ closed[c]
    \/ c \in relSet
    \/ runPc = "close" /\ c \in Range(Take(idleContexts, idles))
    \/ \E p \in Procs : pc[p] = "freeClose" /\ ctx[p] = c
    \/ \E t \in Testers : tpc[t] = "freeClose" /\ tcur[t] = c

\* The Contexts checked out by some user of the bucket.
CheckedOut ==
    UNION {HeldBy(p) : p \in Procs} \cup UNION {THeldBy(t) : t \in Testers}

C14_PairsIsolated ==
    \A p \in Procs :
        /\ Range(dst[p]) \subseteq Range(Stream(p))
        /\ \A c \in HeldBy(p) : Range(pipe[c]) \subseteq Range(Stream(p))
        /\ Returned(p) => n[p] = wrote[p]

\* C14 witness: one Context served both pairs: only one was ever created,
\* both destinations got a byte, and the call running now, on the recycled
\* Context, returned 1.
C14_Witness ==
    /\ nextCtx = 3
    /\ \A p \in Procs : Len(dst[p]) > 0
    /\ \E p \in Procs : /\ pc[p] = "free" /\ err[p] = "nil" /\ n[p] = 1
                        /\ ~closed[ctx[p]]

\* The pool objects created so far for capacity s.
PoolsOf(s) == {i \in 1..Len(pools) : pools[i] = s}

\* C15: at most one pool object is ever created for a capacity, and two
\* assignPool calls for the same capacity return the same pool object.
C15_OnePoolPerSize ==
    /\ \A s \in Sizes : Cardinality(PoolsOf(s)) <= 1
    /\ \A a, b \in Assigners :
          (apc[a] = "done" /\ apc[b] = "done" /\ asize[a] = asize[b])
              => aret[a] = aret[b]

\* C15, the failing run: two pools exist for one capacity and two calls for
\* that capacity returned different pools.
C15_Witness ==
    \E a, b \in Assigners :
        /\ apc[a] = "done" /\ apc[b] = "done" /\ asize[a] = asize[b]
        /\ aret[a] # aret[b]
        /\ Cardinality(PoolsOf(asize[a])) = 2

\* The chunk the call of p took from its source: the taken[p] bytes of the
\* stream that come just before what is still unread.
Chunk(p) ==
    SubSeq(Stream(p), SrcLen - Len(src[p]) - taken[p] + 1, SrcLen - Len(src[p]))

\* The bytes the call of p appended to its destination.
Delivered(p) == SubSeq(dst[p], Len(dst[p]) - wrote[p] + 1, Len(dst[p]))

\* C16: in the write loop and after the return, what the call wrote to its
\* destination is a prefix of the chunk it read, in the source's order; on
\* the fallback path the chunk is buf, and after the return the bytes written
\* are the first n bytes of the chunk.
C16_ChunkInOrder ==
    \A p \in Procs :
        (InLoop(p) \/ Returned(p)) =>
            /\ Delivered(p) = Take(Chunk(p), wrote[p])
            /\ (path[p] = "buffer" /\ taken[p] > 0) => buf[p] = Chunk(p)
            /\ Returned(p) => Delivered(p) = Take(Chunk(p), n[p])

\* C16 witness: spliceBuffer wrote the first byte of a two-byte chunk in a
\* partial write, then got EAGAIN, and has one byte left to write.
C16_Witness ==
    \E p \in Procs :
        /\ pc[p] = "bufWrite" /\ sys[p] = "EAGAIN"
        /\ wrote[p] = 1 /\ remain[p] = 1
        /\ Delivered(p) = <<buf[p][1]>>

\* The zero-copy call of p is at its deferred b.Free(ctx), before Free's lock.
AtFree(p) == pc[p] = "free" /\ path[p] = "splice"

\* Leg 1 of p's call moved a positive count and leg 2 wrote all of it.
Drained(p) == taken[p] > 0 /\ remain[p] = 0 /\ wrote[p] = taken[p]

\* C17: when Splice hands its Context to Free, alive is true exactly when
\* leg 1 moved a positive count and leg 2 wrote all of it, and then the call
\* returns (n, nil); a call that ended otherwise leaves its Context closed
\* and out of the queue.
C17_AliveIffDrained ==
    \A p \in Procs :
        /\ AtFree(p) => /\ alive[ctx[p]] <=> Drained(p)
                        /\ alive[ctx[p]] <=> err[p] = "nil"
        /\ (pc[p] = "done" /\ path[p] = "splice" /\ ctx[p] # NoCtx /\ ~Drained(p)) =>
               /\ closed[ctx[p]]
               /\ ctx[p] \notin Range(queue)

\* C17 witness: a call failed in leg 2 after a partial write, with a byte
\* left in the pipe, and is at Free with alive = false.
C17_Witness ==
    \E p \in Procs :
        /\ AtFree(p) /\ ~alive[ctx[p]]
        /\ wrote[p] = 1 /\ remain[p] = 1 /\ err[p] = "EOF"
        /\ Len(pipe[ctx[p]]) = 1

\* C18 as stated: at a clean end of stream Splice returns (0, EOF) and hands
\* its Context to Free with alive = true, so that Free puts it back.
C18_EofKeepsContext ==
    \A p \in Procs :
        (AtFree(p) /\ CleanEof(p)) =>
            /\ n[p] = 0 /\ err[p] = "EOF"
            /\ alive[ctx[p]]

\* C18 amended: at a clean end of stream Splice returns (0, EOF) and hands
\* its Context to Free with alive = false; Free does not put it back, also
\* with room in the queue, and closes it.
C18_EofDropsContext ==
    \A p \in Procs :
        /\ (AtFree(p) /\ CleanEof(p)) =>
               /\ n[p] = 0 /\ err[p] = "EOF"
               /\ ~alive[ctx[p]]
               /\ ~FreeKeeps(queue, alive[ctx[p]])
        /\ (pc[p] = "freeClose" /\ CleanEof(p)) => ctx[p] \notin Range(queue)

\* C18 witness: a call on a recycled Context found the source at a clean end
\* of stream and is at Free, with room in the queue.
C18_Witness ==
    \E p \in Procs :
        /\ AtFree(p) /\ CleanEof(p)
        /\ Len(dst[p]) = SrcLen
        /\ Len(queue) < maxIdleContexts
        /\ ~closed[ctx[p]]

\* What Free(c) by a user at position was (now at position now) must do:
\* with room in the queue and c alive, c is appended to the queue and stays
\* in pending; otherwise the queue is left alone, c leaves pending and Free
\* goes on to close c.
FreeRule(c, now) ==
    IF Len(queue) < maxIdleContexts /\ alive[c]
    THEN /\ queue' = Append(queue, c)
         /\ pending' = pending
         /\ now \in {"done", "idle"}
    ELSE /\ queue' = queue
         /\ c \notin pending'
         /\ now = "freeClose"

\* The Free calls of this step obey FreeRule, and the Close that follows the
\* other branch closes the Context.
FreeSteps ==
    /\ \A p \in Procs :
          /\ (pc[p] = "free" /\ pc'[p] # "free") => FreeRule(ctx[p], pc'[p])
          /\ (pc[p] = "freeClose" /\ pc'[p] # "freeClose") => closed'[ctx[p]]
    /\ \A t \in Testers :
          /\ (tpc[t] = "free" /\ tpc'[t] # "free") => FreeRule(tcur[t], tpc'[t])
          /\ (tpc[t] = "freeClose" /\ tpc'[t] # "freeClose") => closed'[tcur[t]]

\* A Context Splice freed with alive = false (its call returned an error) is
\* not in the queue and no user of the bucket got it from a later Get.
DeadGone ==
    \A p \in Procs :
        (pc[p] \in {"freeClose", "done"} /\ path[p] = "splice"
            /\ ctx[p] # NoCtx /\ err[p] # "nil") =>
            /\ ctx[p] \notin Range(queue)
            /\ ctx[p] \notin pending
            /\ \A t \in Testers : ctx[p] \notin THeldBy(t)
            /\ pc[p] = "done" => closed[ctx[p]]

\* C19: Free puts the Context back exactly when the queue is below
\* maxIdleContexts and the Context is alive, and otherwise removes it from
\* pending and closes it; a Context freed with alive = false is never in the
\* queue afterwards and no later Get returns it.
C19_FreeRequeuesIffAliveAndRoom ==
    []DeadGone /\ [][FreeSteps]_vars

\* C19 witness: Free refused Splice's dead Context although the queue has
\* room, and is about to close it; the other user holds a live Context.
C19_Witness ==
    /\ \E p \in Procs : /\ pc[p] = "freeClose" /\ path[p] = "splice"
                        /\ err[p] # "nil" /\ ~alive[ctx[p]] /\ ~closed[ctx[p]]
    /\ Len(queue) < maxIdleContexts
    /\ \E t \in Testers : \E c \in thold[t] : alive[c]

\* A Get by a user at position was (now at position now) that found the
\* queue non-empty took the Context at index k, got for got, and created none.
GetTook(k, got, was, now) ==
    (was = "get" /\ now # "get" /\ queue # <<>>) =>
        /\ got = queue[k]
        /\ queue' = [i \in 1..(Len(queue) - 1) |->
                        IF i < k THEN queue[i] ELSE queue[i + 1]]
        /\ nextCtx' = nextCtx
        /\ pending' = pending

\* A Get that found the queue empty goes on to create a Context, which is
\* added to pending before Get returns it.
GetMade(c, was, now) ==
    /\ (was = "get" /\ now # "get" /\ queue = <<>>) =>
           (now = "newContext" /\ queue' = queue)
    /\ (was = "addPending" /\ now # "addPending") =>
           (c \notin Range(queue) /\ pending' = pending \cup {c})

\* Free queues at the end: a Free that changes the queue appends to it.
FreeAppends(c, was, now) ==
    (was = "free" /\ now # "free" /\ queue' # queue) => queue' = Append(queue, c)

\* C20 as stated: Get on a non-empty queue takes the Context queued last.
C20_GetIsLifo ==
    [][/\ \A p \in Procs :
             /\ GetTook(Len(queue), ctx'[p], pc[p], pc'[p])
             /\ GetMade(ctx[p], pc[p], pc'[p])
             /\ FreeAppends(ctx[p], pc[p], pc'[p])
       /\ \A t \in Testers :
             /\ GetTook(Len(queue), CHOOSE c \in Ctxs : thold'[t] = thold[t] \cup {c},
                        tpc[t], tpc'[t])
             /\ GetMade(tcur[t], tpc[t], tpc'[t])
             /\ FreeAppends(tcur[t], tpc[t], tpc'[t])]_vars

\* C20 amended: Get on a non-empty queue takes the Context at the head of
\* the queue, the one queued first of those in it (Free appends at the end),
\* and creates none; on an empty queue it creates a Context and adds it to
\* pending.
C20_GetIsFifo ==
    [][/\ \A p \in Procs :
             /\ GetTook(1, ctx'[p], pc[p], pc'[p])
             /\ GetMade(ctx[p], pc[p], pc'[p])
             /\ FreeAppends(ctx[p], pc[p], pc'[p])
       /\ \A t \in Testers :
             /\ GetTook(1, CHOOSE c \in Ctxs : thold'[t] = thold[t] \cup {c},
                        tpc[t], tpc'[t])
             /\ GetMade(tcur[t], tpc[t], tpc'[t])
             /\ FreeAppends(tcur[t], tpc[t], tpc'[t])]_vars

\* C20 witness: two Contexts were freed, the one created last first, and a
\* Get is about to take one of them.
C20_Witness ==
    \E t \in Testers :
        /\ tpc[t] = "get"
        /\ Len(queue) = 2 /\ queue[1] > queue[2]
        /\ \A c \in Range(queue) : ~closed[c]

\* This step is run's tick: the locked region of lines 209-218.
Tick == runPc = "evict" /\ runPc' # "evict"

\* What every tick does whichever end it evicts from: the evicted Contexts
\* (gone) leave the queue and pending and are the ones run closes next, the
\* rest (kept) stays queued in its order, and a tick on an empty queue
\* changes nothing.
TickEvicts(gone, kept) ==
    /\ queue' = kept
    /\ pending' \cap Range(gone) = {}
    /\ idles' = Len(gone)
    /\ Take(idleContexts', idles') = gone
    /\ gone # <<>> => runPc' = "close"
    /\ gone = <<>> => (runPc' = "check" /\ pending' = pending)

\* run's Close loop closes the Contexts the tick evicted.
TickCloses ==
    (runPc = "close" /\ runPc' # "close") =>
        \A c \in Range(Take(idleContexts, idles)) : closed'[c]

\* C21 as stated: a tick evicts the older half, the Contexts queued first,
\* and the more recently queued ones remain, in their order.
C21_EvictsOlderHalf ==
    [][/\ Tick => TickEvicts(Take(queue, Len(queue) - Len(queue) \div 2),
                             Drop(queue, Len(queue) - Len(queue) \div 2))
       /\ TickCloses]_vars

\* C21 amended: a tick evicts the newer half, the Contexts queued last
\* (len - len/2 of them), and the ones queued first remain, in their order.
C21_EvictsNewerHalf ==
    [][/\ Tick => TickEvicts(Drop(queue, Len(queue) \div 2),
                             Take(queue, Len(queue) \div 2))
       /\ TickCloses]_vars

\* C21 witness: a tick on a queue of two has evicted one Context, which run
\* is about to close, and left the other, still open, in the queue.
C21_Witness ==
    /\ runPc = "close" /\ idles = 1 /\ Len(queue) = 1
    /\ idleContexts[1] # queue[1]
    /\ ~closed[idleContexts[1]] /\ ~closed[queue[1]]

\* This step is a GetInstance call of some user of the shard.
GetInstanceStep ==
    \/ \E p \in Procs : pc[p] = "getInstance" /\ pc'[p] # "getInstance"
    \/ \E t \in Testers : tpc[t] = "idle" /\ tpc'[t] # "idle"
    \/ relPc = "idle" /\ relPc' = "release"

\* A run goroutine exists: from the GetInstance that sets created and starts
\* it to the test in which it clears created and leaves its loop.
RunExists == runPc # "none"

\* C22: a run goroutine exists exactly when created is true; GetInstance
\* starts one only when it turns created from false to true, and leaves a
\* running one alone; nothing but GetInstance sets created; and created is
\* cleared only by run itself, at its test after the idle time with pending
\* empty, which ends the goroutine.
C22_OneRunIffCreated ==
    /\ [](created <=> RunExists)
    /\ [][/\ GetInstanceStep =>
                 IF created
                 THEN UNCHANGED <<created, runPc, idleContexts, idles>>
                 ELSE created' /\ ~RunExists /\ runPc' = "check"
          /\ (~created /\ created') => GetInstanceStep
          /\ (created /\ ~created') =>
                 /\ runPc = "check" /\ runPc' = "none"
                 /\ expired /\ pending = {}
                 /\ ~GetInstanceStep]_vars

\* C22 witness: run cleared created and ended between a caller's
\* GetInstance and the rest of that caller's Get, after an earlier
\* activation that created a Context.
C22_Witness ==
    /\ ~created /\ ~RunExists
    /\ nextCtx > 1
    /\ \E t \in Testers : tpc[t] = "newContext"

\* C23: a closed Context is not in the idle queue, is not held by a user
\* that got it from Get, and is not about to be closed again by Release or
\* by run; and Release does not take a checked-out Context to close it.
C23_DestructionIsFinal ==
    /\ \A c \in Range(queue) : ~closed[c]
    /\ \A c \in CheckedOut : ~closed[c]
    /\ relPc = "close" => \A c \in relSet : ~closed[c]
    /\ runPc = "close" => \A c \in Range(Take(idleContexts, idles)) : ~closed[c]
    /\ relSet \cap CheckedOut = {}

\* C23, the failing state: a Context that Release closed while a transfer
\* held it was put back by the transfer's Free and sits in the idle queue.
C23_Witness ==
    \E c \in Range(queue) :
        /\ closed[c]
        /\ \E p \in Procs : pc[p] = "done" /\ ctx[p] = c /\ err[p] = "nil"

\* C24: the pipe of every Context in the idle queue is empty, the pipe of a
\* Context that Get returned is empty when leg 1 starts, and in leg 2 the
\* pipe of an open Context holds exactly the remain bytes of this call.
C24_QueuedPipesEmpty ==
    /\ \A c \in Range(queue) : pipe[c] = <<>>
    /\ \A p \in Procs :
          /\ pc[p] = "leg1" => pipe[ctx[p]] = <<>>
          /\ (pc[p] = "leg2" /\ ~closed[ctx[p]]) => Len(pipe[ctx[p]]) = remain[p]

\* C24 witness: leg 2 failed with a byte left in the pipe; Free refused the
\* Context although the queue has room and is about to close it, while the
\* other pair's Context, drained, sits in the queue.
C24_Witness ==
    \E p \in Procs :
        /\ pc[p] = "freeClose" /\ ~closed[ctx[p]]
        /\ pipe[ctx[p]] # <<>>
        /\ Len(queue) = 1 /\ ~closed[queue[1]]

\* The open Contexts the shard has handed out or queued.
Live == {c \in CheckedOut \cup Range(queue) : ~closed[c]}

\* C25: while the shard is inactive (created false, no run goroutine) it
\* holds no live Context: the queue is empty, pending is empty and no open
\* Context is checked out; and every live Context that Get has returned or
\* Free has queued is tracked in pending.
C25_InactiveHoldsNothing ==
    /\ (~created /\ ~RunExists) =>
           /\ queue = <<>>
           /\ pending = {}
           /\ Live = {}
    /\ \A c \in Live :
          (c \in Range(queue) \/ \E p \in Procs : ctx[p] = c /\ pc[p] \in {"leg1", "leg2", "free"})
              => c \in pending

\* C25, the failing state: the shard is inactive, no run goroutine exists,
\* and the Context of a transfer that is over sits open in the idle queue.
C25_Witness ==
    /\ ~created /\ ~RunExists
    /\ \E p \in Procs :
          /\ pc[p] = "done" /\ err[p] = "nil"
          /\ ctx[p] \in Range(queue) /\ ~closed[ctx[p]]

\* C26: a call with a caller-supplied Context never slices ctx.buffer past
\* its capacity: the call does not panic, and the working buffer of
\* max(maxSpliceSize, len) bytes fits in cap(ctx.buffer).
C26_BufferWithinCapacity ==
    /\ cpc # "panic"
    /\ (cpc \in {"read", "write"} /\ cbuffer # NoBuffer) =>
           /\ cbuf = BufferSize(clen)
           /\ cbuf <= cbuffer

\* C26, the failing call: Splice with a Context from NewContext and
\* len = maxSpliceSize + 1 panicked on ctx.buffer[:bufferSize].
C26_Witness ==
    /\ cpc = "panic"
    /\ cbuffer = maxSpliceSize
    /\ clen = maxSpliceSize + 1

=============================================================================
